---- MODULE Spec2Model ----
(***************************************************************************)
(* Model of the asynchronous offload path of the UADK RSA engine           *)
(* (src/src/uadk_rsa.c, src/src/uadk_async.h).                             *)
(*                                                                         *)
(* uadk_rsa.c is translated from its code.  The async core it calls        *)
(* (async_get_free_task, async_free_poll_task, async_pause_job,            *)
(* async_wake_job, the poll thread) is only declared in uadk_async.h; its  *)
(* behaviour is taken from the design document (sections 3-5).             *)
(*                                                                         *)
(* Spec is the offload path of an initialised engine; LifeSpec is          *)
(* uadk_e_rsa_init / uadk_e_rsa_uninit and the poll driver from its start  *)
(* to its stop, with the two drain functions of uadk_rsa.c.                *)
(***************************************************************************)
EXTENDS Integers, FiniteSets, Sequences, TLC

(* ---- bounds of the model ---- *)
NumSubmitters == 3
ASYNC_QUEUE_TASK_NUM == 2
MaxCalls == 3
NumInitThreads == 2
MaxInits == 2
MaxPending == 2

(* ---- program constants ---- *)
RSA_MIN_MODULUS_BITS == 512
RSA1024BITS == 1024
RSA2048BITS == 2048
RSA3072BITS == 3072
RSA4096BITS == 4096
OPENSSLRSA7680BITS == 7680
OPENSSLRSA15360BITS == 15360
SOFT == 2
UADK_E_SUCCESS == 1
UADK_E_FAIL == 0
UADK_DO_SOFT == -224
UADK_E_POLL_SUCCESS == 0
CHECK_PADDING_FAIL == -1
EAGAIN == 11
EBUSY == 16
EIO == 5
NumBytes == 128
UADK_E_INIT_SUCCESS == 0
ENOMEM == 12
MyPid == 1

Submitters == 1..NumSubmitters
Slots == 0..(ASYNC_QUEUE_TASK_NUM - 1)
NoOwner == <<0, FALSE>>

AllKinds == {"keygen", "pub_enc", "pri_dec", "pri_sign", "pub_verify"}
BitsSet == {-1, 256, RSA_MIN_MODULUS_BITS, RSA1024BITS, RSA2048BITS, RSA3072BITS,
            RSA4096BITS, OPENSSLRSA7680BITS}
FlenSet == {0, 64}
PreOutcomes == {"ok", "init", "alloc", "sess", "prep"}
HwStatus == {0, EIO}

InitThreads == 1..NumInitThreads
InitOutcomes == {"ok", "env_ok", "nomem", "wd_init", "register"}
PollRets == {0, -EAGAIN, -EIO}
PollAnswers == [ret : PollRets, recv : {0, 1}]
NoAnswer == [ret |-> 0, recv |-> 0]

\* the hardware-side resources of uadk_e_rsa_keygen
Resources == {"sess", "kg_in", "kg_out"}

VARIABLES
    status,     \* poll_queue.status[]: occupancy flag of every slot
    rid,        \* poll_queue.rid: cursor of the next slot to hand out
    empty_sem,  \* poll_queue.empty_sem: slots-available count
    full_sem,   \* poll_queue.full_sem: tasks-pending-drain count
    head,       \* poll_queue.head[]: owner of the task recorded in a slot
    failFast,   \* gate policy when the pool is full: fail fast or block
    hwLive,     \* requests in the hardware whose call is still in rsa_do_crypto
    hwDead,     \* requests in the hardware whose call has returned
    hwFatal,    \* the hardware has failed and will say so to the next poll
    pc,         \* position of every submitter
    calls,      \* number of entry-point calls started so far
    job,        \* op.job: the call runs inside a cooperative job
    done,       \* op.done
    idx,        \* op.idx
    opret,      \* op.ret
    reqStatus,  \* rsa_sess->req.status
    woken,      \* a wake-up of the job has been requested
    started,    \* number of submitters that have made a call
    result,     \* outcome of the entry-point call that returned in the last step
    dpc,        \* position of the poll thread
    g_rsa_res_pid,   \* g_rsa_res.pid: the process that initialised the resources
    g_rsa_res_lock,  \* g_rsa_res.lock: the thread that holds the spin lock, or 0
    ipc,        \* position of every thread inside uadk_e_rsa_init
    iret,       \* what the last uadk_e_rsa_init call of every thread returned
    wd_inits,   \* hardware resource initialisations that are live
    poll_fn,    \* the drain function registered for ASYNC_TASK_RSA
    dstate,     \* state of the poll driver: IDLE, RUNNING or STOPPING
    lpc,        \* position of the drain loop
    pending,    \* tasks-pending-drain count seen by the drain loop
    ans,        \* last answer of the hardware poll: return value and count
    drv_ret,    \* what the drain function returned to the poll driver
    kin,        \* the entry point called and its arguments
    kchk,       \* what rsa_check_bit_useful returned, once it was called
    kpc,        \* position inside the entry point
    ksoft,      \* ret == UADK_DO_SOFT
    allocd,     \* how often every hardware-side resource was allocated
    freed       \* how often it was released

\* the offload path (rsa_do_crypto, the callback, the poll thread at work)
offloadVars == <<status, rid, empty_sem, full_sem, head, failFast, hwLive,
                 hwDead, hwFatal, pc, calls, job, done, idx, opret, reqStatus,
                 woken, started, result, dpc>>

\* the life cycle (uadk_e_rsa_init, the start and the stop of the poll driver)
lifeVars == <<g_rsa_res_pid, g_rsa_res_lock, ipc, iret, wd_inits, poll_fn,
              dstate, lpc, pending, ans, drv_ret>>

\* one call of an entry point, from its argument check to its return
kgVars == <<kin, kchk, kpc, ksoft, allocd, freed>>

vars == <<offloadVars, lifeVars, kgVars>>

poolVars == <<status, rid, empty_sem, full_sem, head>>
opVars == <<job, done, idx, opret, reqStatus, woken>>
hwVars == <<hwLive, hwDead, hwFatal>>
cfgVars == <<failFast, started>>

(* ---- uadk_rsa.c: pure helpers ---- *)

rsa_check_bit_useful(bits, flen) ==
    IF flen = 0 /\ flen > bits THEN SOFT
    ELSE IF bits < RSA_MIN_MODULUS_BITS THEN UADK_E_FAIL
    ELSE IF bits \in {RSA1024BITS, RSA2048BITS, RSA3072BITS, RSA4096BITS}
         THEN UADK_E_SUCCESS
    ELSE SOFT

check_rsa_input_para(flen, valid, bits) ==
    IF ~valid \/ flen <= 0 THEN UADK_E_FAIL
    ELSE rsa_check_bit_useful(bits, flen)

\* BN_bn2binpad: the padded length, or -1 when the conversion fails
BN_bn2binpad(conv) == IF conv = "bn2binpad" THEN -1 ELSE NumBytes

\* check_rsa_pridec_padding / check_rsa_pubdec_padding
check_rsa_padding(len, conv) ==
    LET r == IF len <= 0 \/ conv = "padding" THEN -1 ELSE 64
    IN  IF r = CHECK_PADDING_FAIL THEN UADK_E_FAIL ELSE r

\* The part of an entry point before rsa_do_crypto:
\* "crypto" (the hardware path goes on), "soft" (exe_soft) or "reject".
EntryPre(k, valid, flen, bits, pre) ==
    LET chk == IF k = "keygen" THEN rsa_check_bit_useful(bits, 0)
               ELSE check_rsa_input_para(flen, valid, bits)
    IN  IF k = "pub_verify" /\ chk = UADK_E_FAIL THEN "reject"
        ELSE IF chk = UADK_E_FAIL \/ chk = SOFT THEN "soft"
        ELSE IF pre # "ok" THEN "soft"
        ELSE "crypto"

\* The value of ret at the label that follows the hardware attempt.
uadk_e_rsa_keygen(cret, st, conv) ==
    IF cret = UADK_E_FAIL \/ st # 0 THEN UADK_DO_SOFT
    ELSE IF conv = "res" THEN UADK_DO_SOFT
    ELSE UADK_E_SUCCESS

uadk_e_rsa_public_encrypt(cret, st, conv) ==
    IF cret = UADK_E_FAIL \/ st # 0 THEN UADK_DO_SOFT
    ELSE IF conv = "bin2bn" THEN UADK_DO_SOFT
    ELSE IF BN_bn2binpad(conv) = -1 THEN UADK_DO_SOFT
    ELSE BN_bn2binpad(conv)

uadk_e_rsa_private_decrypt(cret, st, conv) ==
    IF cret = UADK_E_FAIL \/ st # 0 THEN UADK_DO_SOFT
    ELSE IF conv = "bin2bn" THEN UADK_DO_SOFT
    ELSE IF BN_bn2binpad(conv) = 0 THEN UADK_DO_SOFT
    ELSE IF check_rsa_padding(BN_bn2binpad(conv), conv) = 0 THEN UADK_DO_SOFT
    ELSE check_rsa_padding(BN_bn2binpad(conv), conv)

uadk_e_rsa_private_sign(cret, st, conv) ==
    IF cret = UADK_E_FAIL \/ st # 0 THEN UADK_DO_SOFT
    ELSE IF conv = "bin2bn" THEN UADK_DO_SOFT
    ELSE IF conv = "res" THEN UADK_DO_SOFT
    ELSE BN_bn2binpad(conv)

uadk_e_rsa_public_verify(cret, st, conv) ==
    IF cret = UADK_E_FAIL \/ st # 0 THEN UADK_DO_SOFT
    ELSE IF conv = "bin2bn" THEN UADK_DO_SOFT
    ELSE IF conv = "res" THEN UADK_DO_SOFT
    ELSE IF BN_bn2binpad(conv) = 0 THEN UADK_DO_SOFT
    ELSE IF check_rsa_padding(BN_bn2binpad(conv), conv) = 0 THEN UADK_DO_SOFT
    ELSE check_rsa_padding(BN_bn2binpad(conv), conv)

\* Conversion steps an entry point has after the hardware attempt.
ConvOf(k) ==
    CASE k = "keygen"     -> {"ok", "res"}
      [] k = "pub_enc"    -> {"ok", "bin2bn", "bn2binpad"}
      [] k = "pri_dec"    -> {"ok", "bin2bn", "bn2binpad", "padding"}
      [] k = "pri_sign"   -> {"ok", "bin2bn", "res", "bn2binpad"}
      [] k = "pub_verify" -> {"ok", "bin2bn", "res", "bn2binpad", "padding"}

EntryRet(k, cret, st, conv) ==
    CASE k = "keygen"     -> uadk_e_rsa_keygen(cret, st, conv)
      [] k = "pub_enc"    -> uadk_e_rsa_public_encrypt(cret, st, conv)
      [] k = "pri_dec"    -> uadk_e_rsa_private_decrypt(cret, st, conv)
      [] k = "pri_sign"   -> uadk_e_rsa_private_sign(cret, st, conv)
      [] k = "pub_verify" -> uadk_e_rsa_public_verify(cret, st, conv)

\* What the caller of the entry point receives: the path that produced the
\* value ("hw", or "soft" after "if (ret != UADK_DO_SOFT) return ret"),
\* whether the hardware attempt had failed, and why.
EntryResult(s, k, cret, st, conv, why, registered) ==
    LET r == EntryRet(k, cret, st, conv)
        failed == cret = UADK_E_FAIL \/ st # 0 \/ conv # "ok"
    IN  [who |-> s, path |-> IF r = UADK_DO_SOFT THEN "soft" ELSE "hw",
         hwfail |-> failed, cfail |-> cret = UADK_E_FAIL, notif |-> registered,
         cause |-> IF why # "ok" THEN why
                   ELSE IF st # 0 THEN "status"
                   ELSE IF conv # "ok" THEN "conv" ELSE "ok"]

\* Entry point k reaches rsa_do_crypto for some input.
Reaches(k) ==
    \E valid \in BOOLEAN, flen \in FlenSet, bits \in BitsSet :
        EntryPre(k, valid, flen, bits, "ok") = "crypto"

NoResult == [who |-> 0, kinds |-> {}, path |-> "none", hwfail |-> FALSE,
             cfail |-> FALSE, notif |-> FALSE,
             cause |-> "none"]

(* ---- async core: slot pool and flow-control gate (design document) ---- *)

Pool == [status |-> status, rid |-> rid, empty_sem |-> empty_sem, head |-> head]

RECURSIVE ScanFree(_, _, _)
\* circular scan from the cursor for a free slot; -1 when there is none
ScanFree(st, i, cnt) ==
    IF cnt = ASYNC_QUEUE_TASK_NUM THEN -1
    ELSE IF st[i] = 0 THEN i
    ELSE ScanFree(st, (i + 1) % ASYNC_QUEUE_TASK_NUM, cnt + 1)

\* a gate that lets every caller through
wait_for_slot_open(p, ff) == TRUE

\* wait_for_slot: the caller goes on when a slot is available, and under
\* the fail-fast policy also when none is; otherwise it stays blocked.
wait_for_slot(p, ff) == ff \/ p.empty_sem > 0

\* get_free_slot: wait_for_slot (or fail fast), then acquire.
\* ret = 1 with the slot in id, ret = 0 for EXHAUSTED (pool untouched).
async_get_free_task(p) ==
    LET i == ScanFree(p.status, p.rid, 0)
    IN  IF p.empty_sem = 0 \/ i = -1
        THEN [ret |-> 0, id |-> 0, pool |-> p]
        ELSE [ret |-> 1, id |-> i,
              pool |-> [p EXCEPT !.status[i] = 1,
                                 !.rid = (i + 1) % ASYNC_QUEUE_TASK_NUM,
                                 !.empty_sem = p.empty_sem - 1]]

\* a release that signals the gate whether or not the slot was occupied
async_free_poll_task_resignal(p, id, is_cb) ==
    [p EXCEPT !.status[id] = 0,
              !.head[id] = NoOwner,
              !.empty_sem = IF is_cb /\ p.empty_sem < ASYNC_QUEUE_TASK_NUM
                            THEN p.empty_sem + 1 ELSE p.empty_sem]

\* release(slot_index, from_callback): idempotent; only the callback path
\* signals the gate that a slot became available.
async_free_poll_task(p, id, is_cb) ==
    IF p.status[id] = 0 THEN p
    ELSE [p EXCEPT !.status[id] = 0,
                   !.head[id] = NoOwner,
                   !.empty_sem = IF is_cb THEN p.empty_sem + 1 ELSE p.empty_sem]

RECURSIVE FreeAll(_, _, _)
FreeAll(p, ids, is_cb) ==
    IF ids = {} THEN p
    ELSE LET i == CHOOSE x \in ids : TRUE
         IN  FreeAll(async_free_poll_task(p, i, is_cb), ids \ {i}, is_cb)

\* an enqueue that does not signal
signal_task_ready_lost(n) == n

\* signal_task_ready: one more task is pending drain
signal_task_ready(n) == n + 1

SetPool(p) ==
    /\ status' = p.status
    /\ rid' = p.rid
    /\ empty_sem' = p.empty_sem
    /\ head' = p.head

Occupancy == Cardinality({i \in Slots : status[i] = 1})

(* ---- uadk_rsa.c: the conditions of uadk_e_rsa_cb and rsa_do_crypto ---- *)

\* line 994: the request status is copied before op is looked at
CbStatus(old, new, d) == new

\* line 997 without the test of op->job
CbGuard_nojob(j, d) == d = 0

\* line 997: if (op && op->job && !op->done)
CbGuard(j, d) == j /\ d = 0

\* the test of line 1030 left out
GetTaskFailed_never(ret) == FALSE

\* line 1030: if (ret == 0) goto err
GetTaskFailed(ret) == ret = 0

\* line 1036: if (ret < 0 && ret != -EBUSY)
SubmitFatal(ret) == ret < 0 /\ ret # -EBUSY

\* the release of line 1037 made with is_cb = 1
SubmitUnwind_signal(p, id) == async_free_poll_task(p, id, TRUE)

\* the release of line 1037 left out
SubmitUnwind_skip(p, id) == p

\* line 1037: async_free_poll_task(op.idx, 0) on the fatal submission
SubmitUnwind(p, id) == async_free_poll_task(p, id, FALSE)

\* line 1027: rsa_sess->req.status = -1
InitReqStatus == -1

\* lines 1046-1049: the value rsa_do_crypto returns after the resume
ResumeRet(st) == IF st # 0 THEN UADK_E_FAIL ELSE UADK_E_SUCCESS

\* lines 627-635: one pass of the loop of uadk_e_rsa_poll on a hardware
\* answer (ret, recv): leave with a value, or go round again
uadk_e_rsa_poll(ret, recv) ==
    IF recv >= 1 THEN [loop |-> FALSE, ret |-> UADK_E_POLL_SUCCESS]
    ELSE IF ret < 0 /\ ret # -EAGAIN THEN [loop |-> FALSE, ret |-> ret]
    ELSE IF ret = -EAGAIN THEN [loop |-> TRUE, ret |-> ret]
    ELSE [loop |-> FALSE, ret |-> ret]

(* ---- what the caller of an entry point receives ---- *)

\* An outcome together with the entry points that produce it.
Outcome(r, ks) ==
    [who |-> r.who, kinds |-> ks, path |-> r.path, hwfail |-> r.hwfail,
     cfail |-> r.cfail, notif |-> r.notif, cause |-> r.cause]

\* The outcomes of the entry points for every value cret of rsa_do_crypto
\* and every request status st.
OutcomeTable ==
    [cret \in {UADK_E_FAIL, UADK_E_SUCCESS}, st \in HwStatus \cup {InitReqStatus} |->
        LET R(k) == {EntryResult(0, k, cret, st, conv, "ok", FALSE) :
                        conv \in ConvOf(k)}
            ks == {k \in AllKinds : Reaches(k)}
        IN  {Outcome(r, {k \in ks : r \in R(k)}) : r \in UNION {R(k) : k \in ks}}]

Results(s, cret, st, why, registered) ==
    {[r EXCEPT !.who = s, !.notif = registered,
               !.cause = IF why # "ok" THEN why ELSE r.cause] :
        r \in OutcomeTable[cret, st]}

\* What the caller receives when the hardware path is not taken for
\* inputs (valid, flen, bits) and the outcome pre of the steps before
\* rsa_do_crypto: exe_soft, or the rejection of verify.
EntryEarly(s, k, valid, flen, bits, pre) ==
    [who |-> s, path |-> EntryPre(k, valid, flen, bits, pre),
     hwfail |-> EntryPre(k, valid, flen, bits, "ok") = "crypto",
     cfail |-> FALSE, notif |-> FALSE, cause |-> "pre"]

EarlyTable ==
    LET R(k) == {EntryEarly(0, k, valid, flen, bits, pre) :
                    valid \in BOOLEAN, flen \in FlenSet, bits \in BitsSet,
                    pre \in PreOutcomes}
    IN  {Outcome(r, {k \in AllKinds : r \in R(k)}) :
            r \in UNION {R(k) : k \in AllKinds}}

EarlyResults(s) == {[r EXCEPT !.who = s] : r \in EarlyTable}

(* ---- the stack frame of rsa_do_crypto ---- *)

\* The task records of s that stay in the queue when its call returns
\* point at a dead frame.
Orphan(hd, s) ==
    [i \in Slots |-> IF hd[i][1] = s THEN <<s, FALSE>> ELSE hd[i]]

\* The offload path before the first call.
OffloadInit ==
    /\ status = [i \in Slots |-> 0]
    /\ rid = 0
    /\ empty_sem = ASYNC_QUEUE_TASK_NUM
    /\ full_sem = 0
    /\ head = [i \in Slots |-> NoOwner]
    /\ failFast \in BOOLEAN
    /\ hwLive = [s \in Submitters |-> 0]
    /\ hwDead = [s \in Submitters |-> 0]
    /\ hwFatal = FALSE
    /\ pc = [s \in Submitters |-> "idle"]
    /\ calls = 0
    /\ job = [s \in Submitters |-> FALSE]
    /\ done = [s \in Submitters |-> 0]
    /\ idx = [s \in Submitters |-> 0]
    /\ opret = [s \in Submitters |-> 0]
    /\ reqStatus = [s \in Submitters |-> 0]
    /\ woken = [s \in Submitters |-> FALSE]
    /\ started = 0
    /\ result = NoResult
    /\ dpc = "wait"

\* The resources are initialised, uadk_e_rsa_poll is registered and the
\* poll driver runs: the state in which requests are offloaded.
LifeRunning ==
    /\ g_rsa_res_pid = MyPid
    /\ g_rsa_res_lock = 0
    /\ ipc = [t \in InitThreads |-> "idle"]
    /\ iret = [t \in InitThreads |-> <<>>]
    /\ wd_inits = 1
    /\ poll_fn = "uadk_e_rsa_poll"
    /\ dstate = "RUNNING"
    /\ lpc = "wait"
    /\ pending = 0
    /\ ans = NoAnswer
    /\ drv_ret = <<>>

\* No entry point is being walked through.
KgIdle ==
    /\ kin = [k |-> "keygen", valid |-> TRUE, flen |-> 0, bits |-> RSA1024BITS]
    /\ kchk = <<>>
    /\ kpc = "returned"
    /\ ksoft = FALSE
    /\ allocd = [r \in Resources |-> 0]
    /\ freed = [r \in Resources |-> 0]

Init ==
    /\ OffloadInit
    /\ LifeRunning
    /\ KgIdle

\* The entry point k is left with rsa_do_crypto having returned cret and
\* the request status st.  p is the pool at that moment and (j, d, i, o)
\* the content of op.  The frame is dead from here on: a request still in
\* the hardware and a task record still in the queue keep pointing at it,
\* and its content is kept only while one of them does.
Leave(s, cret, st, why, registered, j, d, i, o, p) ==
    LET hd == Orphan(p.head, s)
        dead == hwDead[s] + hwLive[s]
        referenced == dead > 0 \/ \E x \in Slots : hd[x][1] = s
    IN  /\ result' \in Results(s, cret, st, why, registered)
        /\ pc' = [pc EXCEPT ![s] = "idle"]
        /\ woken' = [woken EXCEPT ![s] = FALSE]
        /\ status' = p.status
        /\ rid' = p.rid
        /\ empty_sem' = p.empty_sem
        /\ head' = hd
        /\ hwLive' = [hwLive EXCEPT ![s] = 0]
        /\ hwDead' = [hwDead EXCEPT ![s] = dead]
        /\ hwFatal' = hwFatal
        /\ job' = [job EXCEPT ![s] = IF referenced THEN j ELSE FALSE]
        /\ done' = [done EXCEPT ![s] = IF referenced THEN d ELSE 0]
        /\ idx' = [idx EXCEPT ![s] = IF referenced THEN i ELSE 0]
        /\ opret' = [opret EXCEPT ![s] = IF referenced THEN o ELSE 0]
        /\ reqStatus' = [reqStatus EXCEPT ![s] = IF referenced THEN st ELSE 0]

(* ---- the entry points, up to the first step of rsa_do_crypto ---- *)

\* A submitter that is in no call may start one.  The submitters are
\* interchangeable: they are numbered in the order of their first call.
CanCall(s) ==
    /\ pc[s] = "idle"
    /\ calls < MaxCalls
    /\ s <= started + 1

Called(s) ==
    /\ calls' = calls + 1
    /\ started' = IF s > started THEN s ELSE started

EntryNoCrypto(s) ==
    /\ CanCall(s)
    /\ Called(s)
    /\ \E r \in {x \in EarlyResults(s) : x.path # "crypto"} : result' = r
    /\ UNCHANGED <<poolVars, failFast, hwVars, pc, opVars, dpc>>
    /\ UNCHANGED lifeVars
    /\ UNCHANGED kgVars

(* ---- rsa_do_crypto ---- *)

\* lines 1010-1014: the notification cannot be set up
SetupFail(s) ==
    /\ CanCall(s)
    /\ Called(s)
    /\ Leave(s, UADK_E_FAIL, 0, "setup", FALSE, FALSE, 0, 0, 0, Pool)
    /\ UNCHANGED <<full_sem, failFast, dpc>>
    /\ UNCHANGED lifeVars
    /\ UNCHANGED kgVars

\* lines 1010-1022, 1051-1053: no job, the request is done synchronously
DoSync(s) ==
    /\ CanCall(s)
    /\ Called(s)
    /\ \E r \in {0, -EIO}, st \in HwStatus :
             Leave(s, IF r = 0 THEN UADK_E_SUCCESS ELSE UADK_E_FAIL, st,
                   IF r = 0 THEN "sync_ok" ELSE "sync", FALSE, FALSE, 0, 0, 0, Pool)
    /\ UNCHANGED <<full_sem, failFast, dpc>>
    /\ UNCHANGED lifeVars
    /\ UNCHANGED kgVars

\* lines 1010, 1023-1027: a job is present, the carrier is filled
SetupAsync(s) ==
    /\ CanCall(s)
    /\ Called(s)
    /\ job' = [job EXCEPT ![s] = TRUE]
    /\ done' = [done EXCEPT ![s] = 0]
    /\ idx' = [idx EXCEPT ![s] = 0]
    /\ opret' = [opret EXCEPT ![s] = 0]
    /\ reqStatus' = [reqStatus EXCEPT ![s] = InitReqStatus]
    /\ woken' = [woken EXCEPT ![s] = FALSE]
    /\ pc' = [pc EXCEPT ![s] = "get_task"]
    /\ result' = NoResult
    /\ UNCHANGED <<poolVars, failFast, hwVars, dpc>>
    /\ UNCHANGED lifeVars
    /\ UNCHANGED kgVars

\* lines 1029-1033: a slot is obtained
GetTaskOk(s) ==
    /\ pc[s] = "get_task"
    /\ wait_for_slot(Pool, failFast)
    /\ LET g == async_get_free_task(Pool)
       IN  /\ ~GetTaskFailed(g.ret)
           /\ SetPool(g.pool)
           /\ idx' = [idx EXCEPT ![s] = g.id]
    /\ pc' = [pc EXCEPT ![s] = "submit"]
    /\ result' = NoResult
    /\ UNCHANGED <<full_sem, cfgVars, hwVars, calls, job, done, opret,
                   reqStatus, woken, dpc>>
    /\ UNCHANGED lifeVars
    /\ UNCHANGED kgVars

\* lines 1029-1031, 1051-1053: no slot
GetTaskExhausted(s) ==
    /\ pc[s] = "get_task"
    /\ wait_for_slot(Pool, failFast)
    /\ LET g == async_get_free_task(Pool)
       IN  /\ GetTaskFailed(g.ret)
           /\ Leave(s, UADK_E_FAIL, reqStatus[s], "exhaust", FALSE,
                    job[s], done[s], idx[s], opret[s], g.pool)
    /\ UNCHANGED <<full_sem, cfgVars, calls, dpc>>
    /\ UNCHANGED lifeVars
    /\ UNCHANGED kgVars

\* lines 1034-1040, 1051-1053: wd_do_rsa_async is refused for good
SubmitRejected(s) ==
    /\ pc[s] \in {"submit", "resubmit"}
    /\ SubmitFatal(-EIO)
    /\ Leave(s, UADK_E_FAIL, reqStatus[s], "fatal_submit", FALSE,
             job[s], done[s], idx[s], opret[s], SubmitUnwind(Pool, idx[s]))
    /\ UNCHANGED <<full_sem, cfgVars, calls, dpc>>
    /\ UNCHANGED lifeVars
    /\ UNCHANGED kgVars

\* lines 1034-1040: wd_do_rsa_async answers -EBUSY, the loop goes round.
\* The loop keeps no count of its attempts; the two positions "submit" and
\* "resubmit" tell an even number of -EBUSY answers from an odd one.
SubmitBusy(s) ==
    /\ pc[s] \in {"submit", "resubmit"}
    /\ ~SubmitFatal(-EBUSY)
    /\ pc' = [pc EXCEPT ![s] = IF pc[s] = "submit" THEN "resubmit" ELSE "submit"]
    /\ result' = NoResult
    /\ UNCHANGED <<poolVars, cfgVars, hwVars, calls, opVars, dpc>>
    /\ UNCHANGED lifeVars
    /\ UNCHANGED kgVars

\* lines 1034-1040: wd_do_rsa_async takes the request
SubmitOk(s) ==
    /\ pc[s] \in {"submit", "resubmit"}
    /\ ~SubmitFatal(0)
    /\ hwLive' = [hwLive EXCEPT ![s] = 1]
    /\ pc' = [pc EXCEPT ![s] = "pause"]
    /\ result' = NoResult
    /\ UNCHANGED <<poolVars, cfgVars, hwDead, hwFatal, calls, opVars, dpc>>
    /\ UNCHANGED lifeVars
    /\ UNCHANGED kgVars

\* line 1042, async_pause_job: the task is recorded in its slot, the poll
\* thread is signalled, and the job parks
PauseOk(s) ==
    /\ pc[s] = "pause"
    /\ head' = [head EXCEPT ![idx[s]] = <<s, TRUE>>]
    /\ full_sem' = signal_task_ready(full_sem)
    /\ pc' = [pc EXCEPT ![s] = "parked"]
    /\ result' = NoResult
    /\ UNCHANGED <<status, rid, empty_sem, cfgVars, hwVars, calls, opVars, dpc>>
    /\ UNCHANGED lifeVars
    /\ UNCHANGED kgVars

\* lines 1042-1044, 1051-1053: async_pause_job reports a failure after the
\* task was recorded
PauseFail(s) ==
    /\ pc[s] = "pause"
    /\ full_sem' = signal_task_ready(full_sem)
    /\ Leave(s, UADK_E_FAIL, reqStatus[s], "pause_fail", FALSE,
             job[s], done[s], idx[s], opret[s],
             [Pool EXCEPT !.head[idx[s]] = <<s, TRUE>>])
    /\ UNCHANGED <<cfgVars, calls, dpc>>
    /\ UNCHANGED lifeVars
    /\ UNCHANGED kgVars

\* lines 1042-1049: the job is resumed by the wake-up
Resume(s) ==
    /\ pc[s] = "parked"
    /\ woken[s]
    /\ Leave(s, ResumeRet(reqStatus[s]), reqStatus[s], "ok", TRUE,
             job[s], done[s], idx[s], opret[s], Pool)
    /\ UNCHANGED <<full_sem, cfgVars, calls, dpc>>
    /\ UNCHANGED lifeVars
    /\ UNCHANGED kgVars

(* ---- the poll thread ---- *)

\* wait_for_work
DriverWait ==
    /\ dpc = "wait"
    /\ full_sem > 0
    /\ full_sem' = full_sem - 1
    /\ dpc' = "poll"
    /\ result' = NoResult
    /\ UNCHANGED <<status, rid, empty_sem, head, cfgVars, hwVars, pc, calls,
                   opVars>>
    /\ UNCHANGED lifeVars
    /\ UNCHANGED kgVars

\* uadk_e_rsa_poll: the hardware has nothing ready (-EAGAIN, recv = 0)
DriverPollAgain ==
    /\ dpc \in {"poll", "repoll"}
    /\ ~hwFatal
    /\ uadk_e_rsa_poll(-EAGAIN, 0).loop
    /\ dpc' = "repoll"
    /\ result' = NoResult
    /\ UNCHANGED <<poolVars, cfgVars, hwVars, pc, calls, opVars>>
    /\ UNCHANGED lifeVars
    /\ UNCHANGED kgVars

\* async_wake_job(op->job): a job that is inside a call is made runnable
WakeJob(s) == IF pc[s] = "idle" THEN woken ELSE [woken EXCEPT ![s] = TRUE]

\* uadk_e_rsa_cb (lines 976-1002) on the frame of s with hardware status st
CbEffect(s, st) ==
    /\ reqStatus' = [reqStatus EXCEPT ![s] = CbStatus(reqStatus[s], st, done[s])]
    /\ IF CbGuard(job[s], done[s])
       THEN /\ done' = [done EXCEPT ![s] = 1]
            /\ SetPool(async_free_poll_task(Pool, idx[s], TRUE))
            /\ woken' = WakeJob(s)
       ELSE UNCHANGED <<done, status, rid, empty_sem, head, woken>>

\* uadk_e_rsa_poll: the hardware finishes the request of a call of s that
\* is still in rsa_do_crypto and calls uadk_e_rsa_cb; recv = 1, so the drain
\* function reports success.
DriverPollDone(s, st) ==
    /\ dpc \in {"poll", "repoll"}
    /\ hwLive[s] = 1
    /\ ~hwFatal
    /\ ~uadk_e_rsa_poll(0, 1).loop
    /\ uadk_e_rsa_poll(0, 1).ret = UADK_E_POLL_SUCCESS
    /\ hwLive' = [hwLive EXCEPT ![s] = 0]
    /\ CbEffect(s, st)
    /\ dpc' = "wait"
    /\ result' = NoResult
    /\ UNCHANGED <<full_sem, cfgVars, hwDead, hwFatal, pc, calls, job, idx,
                   opret>>
    /\ UNCHANGED lifeVars
    /\ UNCHANGED kgVars

\* The same for a request whose call has returned.  Its carrier is a
\* dangling reference into the stack: the callback either finds nothing
\* usable there, or works on what that place of the stack holds now.
DriverPollLate(s, st, garbage) ==
    /\ dpc \in {"poll", "repoll"}
    /\ hwDead[s] > 0
    /\ ~hwFatal
    /\ ~uadk_e_rsa_poll(0, 1).loop
    /\ uadk_e_rsa_poll(0, 1).ret = UADK_E_POLL_SUCCESS
    /\ hwDead' = [hwDead EXCEPT ![s] = @ - 1]
    /\ IF garbage
       THEN UNCHANGED <<reqStatus, done, status, rid, empty_sem, head, woken>>
       ELSE CbEffect(s, st)
    /\ dpc' = "wait"
    /\ result' = NoResult
    /\ UNCHANGED <<full_sem, cfgVars, hwLive, hwFatal, pc, calls, job, idx,
                   opret>>
    /\ UNCHANGED lifeVars
    /\ UNCHANGED kgVars

\* The contexts of the queued tasks, resolved as failed: done with the
\* fatal status as result, the job woken, the slot released; the hardware
\* will not complete their requests any more.
Queued == {i \in Slots : head[i] # NoOwner}
QueuedOwners == {head[i][1] : i \in Queued}
QueuedLive == {head[i][1] : i \in {x \in Queued : head[x][2]}}
QueuedDead(s) == Cardinality({x \in Queued : head[x] = <<s, FALSE>>})
Min(a, b) == IF a < b THEN a ELSE b

ResolveFailed(ret) ==
    /\ done' = [s \in Submitters |-> IF s \in QueuedOwners THEN 1 ELSE done[s]]
    /\ opret' = [s \in Submitters |->
                    IF s \in QueuedOwners /\ done[s] = 0 THEN ret ELSE opret[s]]
    /\ woken' = [s \in Submitters |->
                    IF s \in QueuedOwners /\ done[s] = 0 /\ pc[s] # "idle"
                    THEN TRUE ELSE woken[s]]
    /\ SetPool(FreeAll(Pool, Queued, TRUE))
    /\ hwLive' = [s \in Submitters |-> IF s \in QueuedLive THEN 0 ELSE hwLive[s]]
    /\ hwDead' = [s \in Submitters |-> hwDead[s] - Min(hwDead[s], QueuedDead(s))]

\* The hardware fails while it holds requests.
HwFail ==
    /\ ~hwFatal
    /\ \E s \in Submitters : hwLive[s] = 1
    /\ hwFatal' = TRUE
    /\ result' = NoResult
    /\ UNCHANGED <<poolVars, cfgVars, hwLive, hwDead, pc, calls, opVars, dpc>>
    /\ UNCHANGED lifeVars
    /\ UNCHANGED kgVars

\* uadk_e_rsa_poll on the failed hardware (-EIO, recv = 0): the drain
\* function leaves its loop with the fatal status, and the poll thread
\* resolves the queued contexts
DriverPollFatal ==
    /\ dpc \in {"poll", "repoll"}
    /\ hwFatal
    /\ IF uadk_e_rsa_poll(-EIO, 0).loop
       THEN /\ dpc' = "repoll"
            /\ UNCHANGED <<done, opret, woken, status, rid, empty_sem, head,
                           hwLive, hwDead, hwFatal>>
       ELSE /\ uadk_e_rsa_poll(-EIO, 0).ret < 0
            /\ ResolveFailed(uadk_e_rsa_poll(-EIO, 0).ret)
            /\ hwFatal' = FALSE
            /\ dpc' = "wait"
    /\ result' = NoResult
    /\ UNCHANGED <<full_sem, cfgVars, pc, calls, job, idx, reqStatus>>
    /\ UNCHANGED lifeVars
    /\ UNCHANGED kgVars

(* ---- uadk_rsa.c: uadk_e_rsa_init and uadk_e_rsa_uninit ---- *)

\* line 740: if (g_rsa_res.pid != getpid())
InitCheck(pid, me) == pid # me

\* the second look of line 742 left out
InitRecheck_skip(pid, me) == FALSE

\* line 742: if (g_rsa_res.pid == getpid()), with the lock held
InitRecheck(pid, me) == pid = me

\* lines 682-733 (and 667-680 when the environment configures the
\* resources): the value returned and the drain function registered
uadk_e_wd_rsa_init(o) ==
    CASE o = "ok"       -> [ret |-> 0, fn |-> "uadk_e_rsa_poll"]
      [] o = "env_ok"   -> [ret |-> 0, fn |-> "uadk_e_rsa_env_poll"]
      [] o = "nomem"    -> [ret |-> -ENOMEM, fn |-> "none"]
      [] o = "wd_init"  -> [ret |-> -EIO, fn |-> "none"]
      [] o = "register" -> [ret |-> -1, fn |-> "none"]

\* uadk_e_rsa_init returns v to thread t
InitReturn(t, v) ==
    /\ ipc' = [ipc EXCEPT ![t] = "idle"]
    /\ iret' = [iret EXCEPT ![t] = <<v>>]

\* lines 740, 764: the resources belong to this process already
InitCallDone(t) ==
    /\ ipc[t] = "idle"
    /\ ~InitCheck(g_rsa_res_pid, MyPid)
    /\ InitReturn(t, UADK_E_INIT_SUCCESS)
    /\ UNCHANGED <<g_rsa_res_pid, g_rsa_res_lock, wd_inits, poll_fn, dstate,
                   lpc, pending, ans, drv_ret>>
    /\ UNCHANGED offloadVars
    /\ UNCHANGED kgVars

\* line 740: they do not, the thread goes for the lock
InitCall(t) ==
    /\ ipc[t] = "idle"
    /\ InitCheck(g_rsa_res_pid, MyPid)
    /\ ipc' = [ipc EXCEPT ![t] = "lock"]
    /\ iret' = [iret EXCEPT ![t] = <<>>]
    /\ UNCHANGED <<g_rsa_res_pid, g_rsa_res_lock, wd_inits, poll_fn, dstate,
                   lpc, pending, ans, drv_ret>>
    /\ UNCHANGED offloadVars
    /\ UNCHANGED kgVars

\* line 741: pthread_spin_lock
InitLock(t) ==
    /\ ipc[t] = "lock"
    /\ g_rsa_res_lock = 0
    /\ g_rsa_res_lock' = t
    /\ ipc' = [ipc EXCEPT ![t] = "locked"]
    /\ UNCHANGED <<g_rsa_res_pid, iret, wd_inits, poll_fn, dstate, lpc,
                   pending, ans, drv_ret>>
    /\ UNCHANGED offloadVars
    /\ UNCHANGED kgVars

\* lines 742-745: another thread has initialised the resources meanwhile
InitAlready(t) ==
    /\ ipc[t] = "locked"
    /\ InitRecheck(g_rsa_res_pid, MyPid)
    /\ g_rsa_res_lock' = 0
    /\ InitReturn(t, UADK_E_INIT_SUCCESS)
    /\ UNCHANGED <<g_rsa_res_pid, wd_inits, poll_fn, dstate, lpc, pending,
                   ans, drv_ret>>
    /\ UNCHANGED offloadVars
    /\ UNCHANGED kgVars

\* lines 747-752: wd_get_accel_dev finds no device
InitNoDev(t) ==
    /\ ipc[t] = "locked"
    /\ ~InitRecheck(g_rsa_res_pid, MyPid)
    /\ g_rsa_res_lock' = 0
    /\ InitReturn(t, -ENOMEM)
    /\ UNCHANGED <<g_rsa_res_pid, wd_inits, poll_fn, dstate, lpc, pending,
                   ans, drv_ret>>
    /\ UNCHANGED offloadVars
    /\ UNCHANGED kgVars

\* lines 754-756, 766-771: uadk_e_wd_rsa_init fails
InitFail(t, o) ==
    /\ ipc[t] = "locked"
    /\ ~InitRecheck(g_rsa_res_pid, MyPid)
    /\ uadk_e_wd_rsa_init(o).ret # 0
    /\ g_rsa_res_lock' = 0
    /\ InitReturn(t, uadk_e_wd_rsa_init(o).ret)
    /\ UNCHANGED <<g_rsa_res_pid, wd_inits, poll_fn, dstate, lpc, pending,
                   ans, drv_ret>>
    /\ UNCHANGED offloadVars
    /\ UNCHANGED kgVars

\* line 754: uadk_e_wd_rsa_init succeeds and has registered the drain
\* function
InitWd(t, o) ==
    /\ ipc[t] = "locked"
    /\ ~InitRecheck(g_rsa_res_pid, MyPid)
    /\ uadk_e_wd_rsa_init(o).ret = 0
    /\ wd_inits < MaxInits
    /\ wd_inits' = wd_inits + 1
    /\ poll_fn' = uadk_e_wd_rsa_init(o).fn
    /\ ipc' = [ipc EXCEPT ![t] = "set_pid"]
    /\ UNCHANGED <<g_rsa_res_pid, g_rsa_res_lock, iret, dstate, lpc, pending,
                   ans, drv_ret>>
    /\ UNCHANGED offloadVars
    /\ UNCHANGED kgVars

\* lines 758-759: g_rsa_res.pid = getpid()
InitSetPid(t) ==
    /\ ipc[t] = "set_pid"
    /\ g_rsa_res_pid' = MyPid
    /\ ipc' = [ipc EXCEPT ![t] = "unlock"]
    /\ UNCHANGED <<g_rsa_res_lock, iret, wd_inits, poll_fn, dstate, lpc,
                   pending, ans, drv_ret>>
    /\ UNCHANGED offloadVars
    /\ UNCHANGED kgVars

\* lines 760-764: pthread_spin_unlock, return UADK_E_INIT_SUCCESS
InitUnlock(t) ==
    /\ ipc[t] = "unlock"
    /\ g_rsa_res_lock' = 0
    /\ InitReturn(t, UADK_E_INIT_SUCCESS)
    /\ UNCHANGED <<g_rsa_res_pid, wd_inits, poll_fn, dstate, lpc, pending,
                   ans, drv_ret>>
    /\ UNCHANGED offloadVars
    /\ UNCHANGED kgVars

\* lines 774-793: uadk_e_rsa_uninit, called when the engine is destroyed
\* and no thread is inside uadk_e_rsa_init
Uninit ==
    /\ \A t \in InitThreads : ipc[t] = "idle"
    /\ g_rsa_res_pid = MyPid
    /\ wd_inits' = wd_inits - 1
    /\ g_rsa_res_pid' = 0
    /\ iret' = [t \in InitThreads |-> <<>>]
    /\ UNCHANGED <<g_rsa_res_lock, ipc, poll_fn, dstate, lpc, pending, ans,
                   drv_ret>>
    /\ UNCHANGED offloadVars
    /\ UNCHANGED kgVars

(* ---- the poll driver from start to stop (design document, 4.4) ---- *)

\* lines 658-664: one pass of the loop of uadk_e_rsa_env_poll on a hardware
\* answer (ret, recv): leave with a value, or go round again
uadk_e_rsa_env_poll(ret, recv) ==
    IF ret < 0 THEN [loop |-> FALSE, ret |-> ret]
    ELSE IF recv < 1 THEN [loop |-> TRUE, ret |-> ret]
    ELSE [loop |-> FALSE, ret |-> ret]

\* the drain function registered for ASYNC_TASK_RSA, applied to an answer
DrainFn(fn, a) ==
    IF fn = "uadk_e_rsa_env_poll" THEN uadk_e_rsa_env_poll(a.ret, a.recv)
    ELSE uadk_e_rsa_poll(a.ret, a.recv)

\* module setup starts the drain loop
DriverStart ==
    /\ dstate = "IDLE"
    /\ dstate' = "RUNNING"
    /\ lpc' = "wait"
    /\ UNCHANGED <<g_rsa_res_pid, g_rsa_res_lock, ipc, iret, wd_inits, poll_fn,
                   pending, ans, drv_ret>>
    /\ UNCHANGED offloadVars
    /\ UNCHANGED kgVars

\* teardown asks the loop to stop
DriverStop ==
    /\ dstate = "RUNNING"
    /\ dstate' = "STOPPING"
    /\ UNCHANGED <<g_rsa_res_pid, g_rsa_res_lock, ipc, iret, wd_inits, poll_fn,
                   lpc, pending, ans, drv_ret>>
    /\ UNCHANGED offloadVars
    /\ UNCHANGED kgVars

\* a submitter of an initialised engine has enqueued a task
Enqueue ==
    /\ dstate = "RUNNING"
    /\ g_rsa_res_pid = MyPid
    /\ poll_fn # "none"
    /\ pending < MaxPending
    /\ pending' = signal_task_ready(pending)
    /\ UNCHANGED <<g_rsa_res_pid, g_rsa_res_lock, ipc, iret, wd_inits, poll_fn,
                   dstate, lpc, ans, drv_ret>>
    /\ UNCHANGED offloadVars
    /\ UNCHANGED kgVars

\* the loop is at the top of an iteration and sees the stop request
LoopExit ==
    /\ dstate = "STOPPING"
    /\ lpc = "wait"
    /\ dstate' = "IDLE"
    /\ UNCHANGED <<g_rsa_res_pid, g_rsa_res_lock, ipc, iret, wd_inits, poll_fn,
                   lpc, pending, ans, drv_ret>>
    /\ UNCHANGED offloadVars
    /\ UNCHANGED kgVars

\* wait_for_work ends and the loop calls the registered drain function
LoopWait ==
    /\ dstate = "RUNNING"
    /\ lpc = "wait"
    /\ pending > 0
    /\ pending' = pending - 1
    /\ lpc' = "poll"
    /\ drv_ret' = <<>>
    /\ UNCHANGED <<g_rsa_res_pid, g_rsa_res_lock, ipc, iret, wd_inits, poll_fn,
                   dstate, ans>>
    /\ UNCHANGED offloadVars
    /\ UNCHANGED kgVars

\* inside the drain function: the hardware poll answers a and the loop of
\* the function goes round.  The function keeps no count of its passes;
\* "poll" and "repoll" tell an even number of passes from an odd one.
LoopPollAgain(a) ==
    /\ lpc \in {"poll", "repoll"}
    /\ DrainFn(poll_fn, a).loop
    /\ ans' = a
    /\ lpc' = IF lpc = "poll" THEN "repoll" ELSE "poll"
    /\ UNCHANGED <<g_rsa_res_pid, g_rsa_res_lock, ipc, iret, wd_inits, poll_fn,
                   dstate, pending, drv_ret>>
    /\ UNCHANGED offloadVars
    /\ UNCHANGED kgVars

\* the hardware poll answers a and the drain function returns to the loop
LoopPollReturn(a) ==
    /\ lpc \in {"poll", "repoll"}
    /\ ~DrainFn(poll_fn, a).loop
    /\ ans' = a
    /\ drv_ret' = <<DrainFn(poll_fn, a).ret>>
    /\ lpc' = "wait"
    /\ UNCHANGED <<g_rsa_res_pid, g_rsa_res_lock, ipc, iret, wd_inits, poll_fn,
                   dstate, pending>>
    /\ UNCHANGED offloadVars
    /\ UNCHANGED kgVars

\* The process before uadk_e_rsa_init was ever called and before module
\* setup.
LifeInit ==
    /\ OffloadInit
    /\ g_rsa_res_pid = 0
    /\ g_rsa_res_lock = 0
    /\ ipc = [t \in InitThreads |-> "idle"]
    /\ iret = [t \in InitThreads |-> <<>>]
    /\ wd_inits = 0
    /\ poll_fn = "none"
    /\ dstate = "IDLE"
    /\ lpc = "wait"
    /\ pending = 0
    /\ ans = NoAnswer
    /\ drv_ret = <<>>
    /\ KgIdle

LifeNext ==
    \/ \E t \in InitThreads : InitCallDone(t)
    \/ \E t \in InitThreads : InitCall(t)
    \/ \E t \in InitThreads : InitLock(t)
    \/ \E t \in InitThreads : InitAlready(t)
    \/ \E t \in InitThreads : InitNoDev(t)
    \/ \E t \in InitThreads, o \in InitOutcomes : InitFail(t, o)
    \/ \E t \in InitThreads, o \in InitOutcomes : InitWd(t, o)
    \/ \E t \in InitThreads : InitSetPid(t)
    \/ \E t \in InitThreads : InitUnlock(t)
    \/ Uninit
    \/ DriverStart
    \/ DriverStop
    \/ Enqueue
    \/ LoopExit
    \/ LoopWait
    \/ \E a \in PollAnswers : LoopPollAgain(a)
    \/ \E a \in PollAnswers : LoopPollReturn(a)

LifeSpec == LifeInit /\ [][LifeNext]_vars

LifeTypeOK ==
    /\ g_rsa_res_pid \in {0, MyPid}
    /\ g_rsa_res_lock \in {0} \cup InitThreads
    /\ ipc \in [InitThreads -> {"idle", "lock", "locked", "set_pid", "unlock"}]
    /\ wd_inits \in 0..MaxInits
    /\ poll_fn \in {"none", "uadk_e_rsa_poll", "uadk_e_rsa_env_poll"}
    /\ dstate \in {"IDLE", "RUNNING", "STOPPING"}
    /\ lpc \in {"wait", "poll", "repoll"}
    /\ pending \in 0..MaxPending
    /\ ans \in PollAnswers

\* The threads inside uadk_e_rsa_init and the drain loop run; what the
\* hardware answers to a poll is up to the hardware.
LifeFairSpec ==
    /\ LifeSpec
    /\ \A t \in InitThreads :
          WF_vars(InitLock(t) \/ InitAlready(t) \/ InitSetPid(t) \/ InitUnlock(t))
    /\ WF_vars(LoopExit)
    /\ WF_vars(LoopWait)
    /\ WF_vars(\E a \in PollAnswers : LoopPollAgain(a) \/ LoopPollReturn(a))

(* ---- uadk_rsa.c: one entry point from its check to its return ---- *)

Alloc(r) == allocd' = [allocd EXCEPT ![r] = @ + 1]
Free(r) == freed' = [freed EXCEPT ![r] = @ + 1]

\* lines 1289, 560-565: the entry point calls rsa_check_bit_useful, with
\* flen = 0 from uadk_e_rsa_keygen
CheckCalled(k, valid, flen) == k = "keygen" \/ (valid /\ flen > 0)
CheckFlen(k, flen) == IF k = "keygen" THEN 0 ELSE flen

\* The argument check of the entry point.  It goes on to the hardware
\* path ("init" in uadk_e_rsa_keygen, "hw" in the other four), to the
\* software implementation, or returns the rejection.
KgCheck ==
    /\ kpc = "entry"
    /\ kchk' = IF CheckCalled(kin.k, kin.valid, kin.flen)
               THEN <<rsa_check_bit_useful(kin.bits, CheckFlen(kin.k, kin.flen))>>
               ELSE <<>>
    /\ LET to == EntryPre(kin.k, kin.valid, kin.flen, kin.bits, "ok")
       IN  kpc' = IF to = "soft" THEN "exe_soft"
                  ELSE IF to = "reject" THEN "returned"
                  ELSE IF kin.k = "keygen" THEN "init" ELSE "hw"
    /\ UNCHANGED <<kin, ksoft, allocd, freed>>
    /\ UNCHANGED <<offloadVars, lifeVars>>

\* lines 1293-1299: uadk_e_rsa_init and rsa_keygen_param_alloc
KgSetup(ok) ==
    /\ kpc = "init"
    /\ kpc' = IF ok THEN "get_sess" ELSE "exe_soft"
    /\ UNCHANGED <<kin, kchk, ksoft, allocd, freed>>
    /\ UNCHANGED <<offloadVars, lifeVars>>

\* lines 1301-1305, 823-851: rsa_get_eng_session.  When wd_rsa_alloc_sess
\* fails the engine session is released inside (line 846).
KgGetSess(o) ==
    /\ kpc = "get_sess"
    /\ CASE o = "ok"       -> /\ Alloc("sess")
                              /\ kpc' = "primes"
                              /\ UNCHANGED <<ksoft, freed>>
         [] o = "malloc"   -> /\ kpc' = "free_keygen"
                              /\ ksoft' = TRUE
                              /\ UNCHANGED <<allocd, freed>>
         [] o = "wd_alloc" -> /\ Alloc("sess")
                              /\ Free("sess")
                              /\ kpc' = "free_keygen"
                              /\ ksoft' = TRUE
    /\ UNCHANGED <<kin, kchk>>
    /\ UNCHANGED <<offloadVars, lifeVars>>

\* lines 1307-1316: rsa_primes_gen and BN_copy
KgPrimes(ok) ==
    /\ kpc = "primes"
    /\ kpc' = IF ok THEN "fill" ELSE "free_sess"
    /\ ksoft' = ~ok
    /\ UNCHANGED <<kin, kchk, allocd, freed>>
    /\ UNCHANGED <<offloadVars, lifeVars>>

\* lines 1318-1322, 1075-1120: rsa_fill_keygen_data fails on the key
\* parameters, on wd_rsa_new_kg_in or on wd_rsa_new_kg_out, or succeeds
KgFill(o) ==
    /\ kpc = "fill"
    /\ allocd' = [r \in Resources |->
                    IF (r = "kg_in" /\ o \in {"kg_out", "ok"})
                          \/ (r = "kg_out" /\ o = "ok")
                    THEN allocd[r] + 1 ELSE allocd[r]]
    /\ kpc' = IF o = "ok" THEN "crypto" ELSE "free_sess"
    /\ ksoft' = (o # "ok")
    /\ UNCHANGED <<kin, kchk, freed>>
    /\ UNCHANGED <<offloadVars, lifeVars>>

\* lines 1324-1335: rsa_do_crypto and rsa_get_keygen_param
KgCrypto(ok) ==
    /\ kpc = "crypto"
    /\ kpc' = "free_kg_in_out"
    /\ ksoft' = ~ok
    /\ UNCHANGED <<kin, kchk, allocd, freed>>
    /\ UNCHANGED <<offloadVars, lifeVars>>

\* lines 1337-1338, 1122-1129: rsa_free_keygen_data
KgFreeKgInOut ==
    /\ kpc = "free_kg_in_out"
    /\ freed' = [r \in Resources |->
                    IF r \in {"kg_in", "kg_out"} THEN freed[r] + 1 ELSE freed[r]]
    /\ kpc' = "free_sess"
    /\ UNCHANGED <<kin, kchk, ksoft, allocd>>
    /\ UNCHANGED <<offloadVars, lifeVars>>

\* lines 1339-1340, 810-821: rsa_free_eng_session
KgFreeSess ==
    /\ kpc = "free_sess"
    /\ Free("sess")
    /\ kpc' = "free_keygen"
    /\ UNCHANGED <<kin, kchk, ksoft, allocd>>
    /\ UNCHANGED <<offloadVars, lifeVars>>

\* lines 1341-1344: rsa_keygen_param_free; if (ret != UADK_DO_SOFT) return
KgFreeKeygen ==
    /\ kpc = "free_keygen"
    /\ kpc' = IF ksoft THEN "exe_soft" ELSE "returned"
    /\ UNCHANGED <<kin, kchk, ksoft, allocd, freed>>
    /\ UNCHANGED <<offloadVars, lifeVars>>

\* lines 1345-1347: the software implementation
KgSoft ==
    /\ kpc = "exe_soft"
    /\ kpc' = "returned"
    /\ UNCHANGED <<kin, kchk, ksoft, allocd, freed>>
    /\ UNCHANGED <<offloadVars, lifeVars>>

\* An entry point is called with any arguments.
KeygenInit ==
    /\ OffloadInit
    /\ LifeRunning
    /\ kin \in [k : AllKinds, valid : BOOLEAN, flen : FlenSet, bits : BitsSet]
    /\ kchk = <<>>
    /\ kpc = "entry"
    /\ ksoft = FALSE
    /\ allocd = [r \in Resources |-> 0]
    /\ freed = [r \in Resources |-> 0]

KeygenNext ==
    \/ KgCheck
    \/ \E ok \in BOOLEAN : KgSetup(ok)
    \/ \E o \in {"ok", "malloc", "wd_alloc"} : KgGetSess(o)
    \/ \E ok \in BOOLEAN : KgPrimes(ok)
    \/ \E o \in {"ok", "params", "kg_in", "kg_out"} : KgFill(o)
    \/ \E ok \in BOOLEAN : KgCrypto(ok)
    \/ KgFreeKgInOut
    \/ KgFreeSess
    \/ KgFreeKeygen
    \/ KgSoft

KeygenSpec == KeygenInit /\ [][KeygenNext]_vars

Next ==
    \/ \E s \in Submitters : EntryNoCrypto(s)
    \/ \E s \in Submitters : SetupFail(s)
    \/ \E s \in Submitters : DoSync(s)
    \/ \E s \in Submitters : SetupAsync(s)
    \/ \E s \in Submitters : GetTaskOk(s)
    \/ \E s \in Submitters : GetTaskExhausted(s)
    \/ \E s \in Submitters : SubmitRejected(s)
    \/ \E s \in Submitters : SubmitBusy(s)
    \/ \E s \in Submitters : SubmitOk(s)
    \/ \E s \in Submitters : PauseOk(s)
    \/ \E s \in Submitters : PauseFail(s)
    \/ \E s \in Submitters : Resume(s)
    \/ DriverWait
    \/ DriverPollAgain
    \/ \E s \in Submitters, st \in HwStatus : DriverPollDone(s, st)
    \/ \E s \in Submitters, st \in HwStatus, garbage \in BOOLEAN :
          DriverPollLate(s, st, garbage)
    \/ HwFail
    \/ DriverPollFatal

Spec == Init /\ [][Next]_vars

TypeOK ==
    /\ status \in [Slots -> {0, 1}]
    /\ rid \in Slots
    /\ empty_sem \in 0..ASYNC_QUEUE_TASK_NUM
    /\ full_sem \in Nat
    /\ pc \in [Submitters -> {"idle", "get_task", "submit", "resubmit", "pause",
                             "parked"}]
    /\ done \in [Submitters -> {0, 1}]
    /\ idx \in [Submitters -> Slots]
    /\ dpc \in {"wait", "poll", "repoll"}
    /\ hwFatal \in BOOLEAN
    /\ hwLive \in [Submitters -> {0, 1}]
    /\ hwDead \in [Submitters -> 0..MaxCalls]

(* ---- scheduling ---- *)

\* A submitter thread that can take its next step takes it, the poll
\* thread runs, and the hardware answers a poll for work it holds.
DriverAnswer ==
    \/ \E s \in Submitters, st \in HwStatus : DriverPollDone(s, st)
    \/ \E s \in Submitters, st \in HwStatus, garbage \in BOOLEAN :
          DriverPollLate(s, st, garbage)
    \/ DriverPollFatal

FairSpec ==
    /\ Spec
    /\ WF_vars(DriverWait)
    /\ WF_vars(DriverAnswer)
    /\ \A s \in Submitters : WF_vars(GetTaskOk(s))
    /\ \A s \in Submitters :
          WF_vars(SubmitRejected(s) \/ SubmitBusy(s) \/ SubmitOk(s))
    /\ \A s \in Submitters : WF_vars(PauseOk(s) \/ PauseFail(s))
    /\ \A s \in Submitters : WF_vars(Resume(s))

(* ---- properties ---- *)

\* The submitters that hold a slot: past async_get_free_task and not yet
\* released by the callback.
Holders ==
    {s \in Submitters :
        pc[s] \in {"submit", "resubmit", "pause", "parked"} /\ done[s] = 0}

\* C1: in every reachable state the submitters that hold a task slot are
\* at most ASYNC_QUEUE_TASK_NUM, however many submit at once, and the
\* slots the gate still offers together with the occupied ones never
\* exceed ASYNC_QUEUE_TASK_NUM.
C1_BoundedOccupancy ==
    /\ Cardinality(Holders) <= ASYNC_QUEUE_TASK_NUM
    /\ Occupancy <= ASYNC_QUEUE_TASK_NUM
    /\ empty_sem + Occupancy <= ASYNC_QUEUE_TASK_NUM

\* The pool is full and one more submitter stands at async_get_free_task.
C1_Witness ==
    /\ Cardinality(Holders) = ASYNC_QUEUE_TASK_NUM
    /\ Occupancy = ASYNC_QUEUE_TASK_NUM
    /\ \E s \in Submitters : pc[s] = "get_task"

\* uadk_e_rsa_cb runs on the context of s
CbOn(s) ==
    \E st \in HwStatus : DriverPollDone(s, st) \/ DriverPollLate(s, st, FALSE)

\* C2: the callback marks a context done once, with one release and one
\* wake-up, and an invocation on a context that is already done changes
\* nothing.
C2_CallbackOnce ==
    [][\A s \in Submitters :
          /\ (CbOn(s) /\ job[s] /\ done[s] = 0) =>
                /\ done'[s] = 1
                /\ status'[idx[s]] = 0
                /\ pc[s] # "idle" => woken'[s]
          /\ (CbOn(s) /\ pc[s] # "idle" /\ done[s] = 1) =>
                /\ done'[s] = 1
                /\ reqStatus'[s] = reqStatus[s]
                /\ UNCHANGED <<status, rid, empty_sem, head, woken>>]_vars

\* C3: when the drain function reports a fatal status, every queued
\* context of a caller still in its call is marked done, with the fatal
\* status as its result if it was not done before, the caller is woken
\* and will see a failed request, the slots of all queued tasks are
\* free; and a caller parked while the hardware has failed does not stay
\* parked.
C3_FatalDrain ==
    /\ [][DriverPollFatal =>
             /\ \A s \in QueuedLive :
                   /\ done'[s] = 1
                   /\ status'[idx[s]] = 0
                   /\ done[s] = 0 =>
                         (opret'[s] < 0 /\ woken'[s] /\ reqStatus'[s] # 0)
             /\ \A i \in Queued : status'[i] = 0]_vars
    /\ \A s \in Submitters :
          (pc[s] = "parked" /\ hwFatal) ~> (pc[s] # "parked")

\* C4: when wd_do_rsa_async is refused for good, the caller does not
\* park and is not queued, the slot it had acquired is free again and no
\* other slot changes, the event notification is cleared and
\* rsa_do_crypto returns UADK_E_FAIL.
C4_SubmitRollback ==
    [][\A s \in Submitters :
          (pc[s] \in {"submit", "resubmit"} /\ result'.who = s
              /\ result'.cause = "fatal_submit") =>
                /\ pc'[s] = "idle"
                /\ status' = [status EXCEPT ![idx[s]] = 0]
                /\ full_sem' = full_sem
                /\ \A i \in Slots : head'[i] # <<s, TRUE>>
                /\ hwLive'[s] = 0
                /\ ~result'.notif
                /\ result'.cfail]_vars

\* A fatal submission has just been rolled back and the pool is empty
\* again.
C4_Witness ==
    /\ result.cause = "fatal_submit"
    /\ pc[result.who] = "idle"
    /\ Occupancy = 0

\* C5: an entry point whose hardware attempt failed at any step hands
\* its caller the result of the software implementation, never the
\* value left by the failed attempt.
C5_SoftwareFallback == result.hwfail => result.path = "soft"

\* C6: a submitter that async_get_free_task turns away with no slot
\* leaves rsa_do_crypto with UADK_E_FAIL at once, without a request in
\* the hardware and without being queued or parked, the pool, the gate
\* and the hardware queue are as before, and its entry point falls back
\* to software.
C6_Exhaustion ==
    [][\A s \in Submitters :
          (pc[s] = "get_task" /\ pc'[s] # "get_task"
              /\ async_get_free_task(Pool).ret = 0) =>
                /\ pc'[s] = "idle"
                /\ result'.who = s
                /\ result'.cfail
                /\ result'.path = "soft"
                /\ UNCHANGED <<poolVars, hwVars>>]_vars

\* A call has just fallen back on exhaustion and the pool is still full.
C6_Witness ==
    /\ result.cause = "exhaust"
    /\ result.path = "soft"
    /\ Occupancy = ASYNC_QUEUE_TASK_NUM

Waiters == {s \in Submitters : pc[s] = "get_task"}

C8_ReleaseIdempotent ==
    \A i \in Slots, a \in BOOLEAN, b \in BOOLEAN :
        async_free_poll_task(async_free_poll_task(Pool, i, a), i, b)
            = async_free_poll_task(Pool, i, a)

\* The callback path has released the slot of a submitter that is still
\* before its submission, whose error unwind would release it again.
C8_Witness ==
    \E s \in Submitters :
        /\ pc[s] \in {"submit", "resubmit"}
        /\ done[s] = 1
        /\ status[idx[s]] = 0
        /\ empty_sem > 0

\* C9: every enqueue raises the tasks-pending-drain count by one; the
\* count is lowered only by the poll thread leaving wait_for_work, by
\* one; and a poll thread that waits while the count is positive leaves
\* its wait: a signal given after the wait began wakes it, and it never
\* waits for ever while a task is pending drain.
C9_NoLostWakeup ==
    /\ [][\A s \in Submitters :
             (pc[s] = "pause" /\ pc'[s] # "pause") => full_sem' = full_sem + 1]_vars
    /\ [][full_sem' < full_sem =>
             (dpc = "wait" /\ dpc' = "poll" /\ full_sem' = full_sem - 1)]_vars
    /\ (dpc = "wait" /\ full_sem > 0) ~> (dpc # "wait")

\* The only submitter has enqueued its task and signalled while the poll
\* thread was waiting.
C9_Witness ==
    /\ started = 1
    /\ \E s \in Submitters : pc[s] = "parked" /\ done[s] = 0
    /\ dpc = "wait"
    /\ full_sem = 1

\* C10: a call without a job changes neither the pool nor the gate
\* counts nor the hardware queue and returns without parking; and
\* uadk_e_rsa_cb on a context without a job releases no slot and wakes
\* no job.
C10_SyncMode ==
    [][/\ result'.cause \in {"sync", "sync_ok"} =>
             /\ pc[result'.who] = "idle"
             /\ pc'[result'.who] = "idle"
             /\ UNCHANGED <<poolVars, hwVars>>
       /\ \A s \in Submitters :
             (CbOn(s) /\ ~job[s]) =>
                 UNCHANGED <<status, rid, empty_sem, head, woken, done>>]_vars

\* A synchronous call has returned into a frame that a request still in
\* the hardware refers to.
C10_Witness ==
    /\ result.cause = "sync_ok"
    /\ hwDead[result.who] > 0
    /\ ~job[result.who]

\* C11: the callback for the task of a parked caller leaves the hardware
\* status of that task in the caller's request and done set when it asks
\* for the wake-up; from the wake-up to the resume the request status
\* does not change; and a caller that resumes finds done set and its own
\* task completed or resolved, not still in the hardware.
C11_ResumeSeesOwn ==
    [][\A s \in Submitters :
          /\ \A st \in HwStatus :
                (DriverPollDone(s, st) /\ pc[s] = "parked" /\ done[s] = 0) =>
                    (reqStatus'[s] = st /\ done'[s] = 1 /\ woken'[s])
          /\ (pc[s] = "parked" /\ woken[s] /\ pc'[s] = "parked") =>
                reqStatus'[s] = reqStatus[s]
          /\ (pc[s] = "parked" /\ pc'[s] = "idle") =>
                (done[s] = 1 /\ hwLive[s] = 0)]_vars

\* C12: no step of the poll thread runs uadk_e_rsa_cb for a request whose
\* rsa_do_crypto call has returned, that is, on a carrier and a context
\* in a stack frame that is gone.
C12_NoStaleCallback ==
    [][\A s \in Submitters, st \in HwStatus, garbage \in BOOLEAN :
          ~DriverPollLate(s, st, garbage)]_vars

\* C13: two submitters whose submissions are in flight (past
\* async_get_free_task, not yet completed) never hold the same slot
\* index, and async_get_free_task never hands out the index a submission
\* in flight holds.
C13_SlotExclusive ==
    /\ [](\A s \in Holders, t \in Holders : s # t => idx[s] # idx[t])
    /\ [][\A s \in Submitters :
             (pc[s] = "get_task" /\ pc'[s] = "submit") =>
                 \A t \in Holders : idx'[s] # idx[t]]_vars

\* C14: the poll driver changes state only from IDLE to RUNNING, from
\* RUNNING to STOPPING and from STOPPING to IDLE, and once a stop is
\* requested the drain loop ends: the driver reaches IDLE.
C14_DriverStops ==
    /\ [][dstate' # dstate =>
             <<dstate, dstate'>> \in {<<"IDLE", "RUNNING">>,
                                      <<"RUNNING", "STOPPING">>,
                                      <<"STOPPING", "IDLE">>}]_vars
    /\ (dstate = "STOPPING") ~> (dstate = "IDLE")

\* C15: the slots-available count rises only in a step of the poll thread
\* that runs the callback, and by one for the slot that step frees: a
\* callback on a context already done, or whose slot is free, signals
\* nothing more; the release of the error unwind after a fatal
\* submission frees the slot and leaves the count alone; and the count
\* never exceeds ASYNC_QUEUE_TASK_NUM.
C15_GateSignal ==
    /\ [][\A s \in Submitters :
             (CbOn(s) /\ CbGuard(job[s], done[s]) /\ status[idx[s]] = 1) =>
                 (empty_sem' = empty_sem + 1 /\ status'[idx[s]] = 0)]_vars
    /\ [][empty_sem' > empty_sem =>
             (dpc \in {"poll", "repoll"}
                 /\ empty_sem' - empty_sem = Occupancy - Occupancy')]_vars
    /\ [][\A s \in Submitters :
             (pc[s] \in {"submit", "resubmit"} /\ pc'[s] = "idle") =>
                 (empty_sem' = empty_sem /\ status'[idx[s]] = 0)]_vars
    /\ [](empty_sem <= ASYNC_QUEUE_TASK_NUM)

\* A callback release has signalled the gate and an unwind release has
\* not: the pool is empty and the gate offers one slot less than there
\* are, while another call is past its completion.
C15_Witness ==
    /\ result.cause = "fatal_submit"
    /\ Occupancy = 0
    /\ empty_sem = ASYNC_QUEUE_TASK_NUM - 1
    /\ \E s \in Submitters : pc[s] = "parked" /\ done[s] = 1 /\ woken[s]

\* C16: a submitter that is in the submission loop leaves it, whatever
\* the hardware answers: after a bounded number of -EBUSY answers the
\* loop ends; and any other negative answer ends the call at once with
\* UADK_E_FAIL.
C16_BoundedRetry ==
    /\ \A s \in Submitters :
          (pc[s] \in {"submit", "resubmit"}) ~> (pc[s] \notin {"submit", "resubmit"})
    /\ [][\A s \in Submitters :
             (SubmitRejected(s) /\ SubmitFatal(-EIO)) =>
                 (pc'[s] = "idle" /\ result'.cfail)]_vars

\* C17: whichever drain function is registered, when it has returned a
\* negative status to the poll driver, the answer of the hardware poll it
\* returned on was not the try-again answer -EAGAIN.
C17_NoTryAgainError ==
    (drv_ret # <<>> /\ drv_ret[1] < 0) => ans.ret # -EAGAIN

\* C18: a call that had acquired a slot has that slot free when
\* rsa_do_crypto returns, on every return path, and the pool is empty
\* whenever no submitter is inside a call.
C18_SlotReleased ==
    /\ [][\A s \in Submitters :
             (pc[s] \in {"submit", "resubmit", "pause", "parked"}
                 /\ pc'[s] = "idle") => status'[idx[s]] = 0]_vars
    /\ []((\A s \in Submitters : pc[s] = "idle") => Occupancy = 0)

\* C19: when uadk_e_rsa_poll has returned UADK_E_POLL_SUCCESS to the poll
\* driver, the hardware poll it returned on had received at least the
\* one completion asked for.
C19_SuccessMeansReceived ==
    (poll_fn = "uadk_e_rsa_poll" /\ drv_ret = <<UADK_E_POLL_SUCCESS>>) =>
        ans.recv >= 1

C21_BitsUseful ==
    /\ kchk # <<>> =>
          /\ kchk[1] = UADK_E_SUCCESS <=>
                kin.bits \in {RSA1024BITS, RSA2048BITS, RSA3072BITS, RSA4096BITS}
          /\ kchk[1] = UADK_E_FAIL <=> kin.bits < RSA_MIN_MODULUS_BITS
          /\ kchk[1] \in {UADK_E_SUCCESS, UADK_E_FAIL, SOFT}
    /\ kpc \notin {"entry", "exe_soft", "returned"} => kchk = <<UADK_E_SUCCESS>>

\* C22: a resource is never released more often than it was allocated,
\* none is allocated twice, and when uadk_e_rsa_keygen falls back to
\* software or returns every resource it allocated has been released.
C22_KeygenResources ==
    /\ \A r \in Resources : freed[r] <= allocd[r] /\ allocd[r] <= 1
    /\ kpc \in {"exe_soft", "returned"} =>
          \A r \in Resources : freed[r] = allocd[r]

====
